---------------------------- MODULE Spec2Model ----------------------------
(***************************************************************************)
(* IGV session generator: create_igv_session.py and multiple-individuals.py *)
(*                                                                         *)
(* A Python str is a sequence of one-character strings, so that f-string   *)
(* formatting is concatenation and two paths are equal exactly when they   *)
(* are equal character by character.  An ElementTree element is a record   *)
(* [tag, attrib, children].  Attribute values built from caller input are  *)
(* character sequences (the attributes in CharAttrs); attribute values that *)
(* are fixed viewer constants ("org.broad.igv...", "10", "true") are kept  *)
(* as atomic strings.                                                      *)
(***************************************************************************)
EXTENDS Integers, Sequences, FiniteSets, TLC

VARIABLES pc, prog, args, sample_list, call, xml_content, prev,
          dir_exists, dirs_created, files_written, stdout, exit_code

vars == <<pc, prog, args, sample_list, call, xml_content, prev,
          dir_exists, dirs_created, files_written, stdout, exit_code>>

(***************************************************************************)
(* String literals of the two source files.                                *)
(***************************************************************************)
S_founder_phased == \* "/founder-phased/"
    <<"/", "f", "o", "u", "n", "d", "e", "r", "-", "p", "h", "a", "s", "e", "d", "/">>
S_dna_methylation == \* ".dna-methylation.founder-phased."
    <<".", "d", "n", "a", "-", "m", "e", "t", "h", "y", "l", "a", "t", "i", "o", "n", ".", "f", "o", "u", "n", "d", "e", "r", "-", "p", "h", "a", "s", "e", "d", ".">>
S_pat == \* "pat"
    <<"p", "a", "t">>
S_mat == \* "mat"
    <<"m", "a", "t">>
S_dot == \* "."
    <<".">>
S_bw == \* ".bw"
    <<".", "b", "w">>
S_hap_map_blocks == \* ".hap-map-blocks."
    <<".", "h", "a", "p", "-", "m", "a", "p", "-", "b", "l", "o", "c", "k", "s", ".">>
S_paternal == \* "paternal"
    <<"p", "a", "t", "e", "r", "n", "a", "l">>
S_maternal == \* "maternal"
    <<"m", "a", "t", "e", "r", "n", "a", "l">>
S_sorted_bed_gz == \* ".sorted.bed.gz"
    <<".", "s", "o", "r", "t", "e", "d", ".", "b", "e", "d", ".", "g", "z">>
S_tbi == \* ".tbi"
    <<".", "t", "b", "i">>
S_bai == \* ".bai"
    <<".", "b", "a", "i">>
S_read_backed_phased == \* "/read-backed-phased/"
    <<"/", "r", "e", "a", "d", "-", "b", "a", "c", "k", "e", "d", "-", "p", "h", "a", "s", "e", "d", "/">>
S_haplotagged_bam == \* ".GRCh38.haplotagged.bam"
    <<".", "G", "R", "C", "h", "3", "8", ".", "h", "a", "p", "l", "o", "t", "a", "g", "g", "e", "d", ".", "b", "a", "m">>
S_coverage_id == \* "_coverage"
    <<"_", "c", "o", "v", "e", "r", "a", "g", "e">>
S_coverage_name == \* " Coverage"
    <<" ", "C", "o", "v", "e", "r", "a", "g", "e">>
S_DataPanel == \* "DataPanel"
    <<"D", "a", "t", "a", "P", "a", "n", "e", "l">>
S_Panel == \* "Panel"
    <<"P", "a", "n", "e", "l">>
S_bam_panel == \* "_bam"
    <<"_", "b", "a", "m">>
S_FeaturePanel == \* "FeaturePanel"
    <<"F", "e", "a", "t", "u", "r", "e", "P", "a", "n", "e", "l">>
S_Reference_sequence == \* "Reference sequence"
    <<"R", "e", "f", "e", "r", "e", "n", "c", "e", " ", "s", "e", "q", "u", "e", "n", "c", "e">>
S_Refseq_Select == \* "Refseq Select"
    <<"R", "e", "f", "s", "e", "q", " ", "S", "e", "l", "e", "c", "t">>
S_refseq_url == \* "https://hgdownload.soe.ucsc.edu/goldenPath/hg38/database/ncbiRefSeqSelect.txt.gz"
    <<"h", "t", "t", "p", "s", ":", "/", "/", "h", "g", "d", "o", "w", "n", "l", "o", "a", "d", ".", "s", "o", "e", ".", "u", "c", "s", "c", ".", "e", "d", "u", "/", "g", "o", "l", "d", "e", "n", "P", "a", "t", "h", "/", "h", "g", "3", "8", "/", "d", "a", "t", "a", "b", "a", "s", "e", "/", "n", "c", "b", "i", "R", "e", "f", "S", "e", "q", "S", "e", "l", "e", "c", "t", ".", "t", "x", "t", ".", "g", "z">>
S_fractions_bam == \* "0.15,0.75"
    <<"0", ".", "1", "5", ",", "0", ".", "7", "5">>
S_fractions_nobam == \* "0.30"
    <<"0", ".", "3", "0">>
S_fractions_multi == \* "0.60"
    <<"0", ".", "6", "0">>
S_hg38 == \* "hg38"
    <<"h", "g", "3", "8">>
S_localhost == \* "http://localhost:8080"
    <<"h", "t", "t", "p", ":", "/", "/", "l", "o", "c", "a", "l", "h", "o", "s", "t", ":", "8", "0", "8", "0">>
S_count == \* "count"
    <<"c", "o", "u", "n", "t">>
S_model == \* "model"
    <<"m", "o", "d", "e", "l">>
S_igv_sessions == \* "igv-sessions"
    <<"i", "g", "v", "-", "s", "e", "s", "s", "i", "o", "n", "s">>
S_slash == \* "/"
    <<"/">>
S_xml == \* ".xml"
    <<".", "x", "m", "l">>
S_single_created == \* "IGV session file created: "
    <<"I", "G", "V", " ", "s", "e", "s", "s", "i", "o", "n", " ", "f", "i", "l", "e", " ", "c", "r", "e", "a", "t", "e", "d", ":", " ">>
S_vcf_joint == \* "/vcfs/CEPH-1463.joint.GRCh38.deepvariant.glnexus.phased.vcf.gz"
    <<"/", "v", "c", "f", "s", "/", "C", "E", "P", "H", "-", "1", "4", "6", "3", ".", "j", "o", "i", "n", "t", ".", "G", "R", "C", "h", "3", "8", ".", "d", "e", "e", "p", "v", "a", "r", "i", "a", "n", "t", ".", "g", "l", "n", "e", "x", "u", "s", ".", "p", "h", "a", "s", "e", "d", ".", "v", "c", "f", ".", "g", "z">>
S_vcf_iht == \* "/vcfs-iht-phased/CEPH1463.GRCh38.pass.sorted.vcf.gz"
    <<"/", "v", "c", "f", "s", "-", "i", "h", "t", "-", "p", "h", "a", "s", "e", "d", "/", "C", "E", "P", "H", "1", "4", "6", "3", ".", "G", "R", "C", "h", "3", "8", ".", "p", "a", "s", "s", ".", "s", "o", "r", "t", "e", "d", ".", "v", "c", "f", ".", "g", "z">>
S_joint_vcf == \* "joint_vcf"
    <<"j", "o", "i", "n", "t", "_", "v", "c", "f">>
S_All_variants == \* "All variants"
    <<"A", "l", "l", " ", "v", "a", "r", "i", "a", "n", "t", "s">>
S_joint_vcf_iht_phased == \* "joint_vcf_iht_phased"
    <<"j", "o", "i", "n", "t", "_", "v", "c", "f", "_", "i", "h", "t", "_", "p", "h", "a", "s", "e", "d">>
S_Phased_variants == \* "Phased variants (PAT|MAT)"
    <<"P", "h", "a", "s", "e", "d", " ", "v", "a", "r", "i", "a", "n", "t", "s", " ", "(", "P", "A", "T", "|", "M", "A", "T", ")">>
S_underscore == \* "_"
    <<"_">>
S_meth == \* "_meth"
    <<"_", "m", "e", "t", "h">>
S_space == \* " "
    <<" ">>
S_Methylation == \* " Methylation"
    <<" ", "M", "e", "t", "h", "y", "l", "a", "t", "i", "o", "n">>
S_blocks == \* "_blocks"
    <<"_", "b", "l", "o", "c", "k", "s">>
S_Blocks == \* " Blocks"
    <<" ", "B", "l", "o", "c", "k", "s">>
S_multi_out_default == \* "multi_sample_session.xml"
    <<"m", "u", "l", "t", "i", "_", "s", "a", "m", "p", "l", "e", "_", "s", "e", "s", "s", "i", "o", "n", ".", "x", "m", "l">>
S_multi_created == \* "Multi-sample IGV session created: "
    <<"M", "u", "l", "t", "i", "-", "s", "a", "m", "p", "l", "e", " ", "I", "G", "V", " ", "s", "e", "s", "s", "i", "o", "n", " ", "c", "r", "e", "a", "t", "e", "d", ":", " ">>

(***************************************************************************)
(* Bounds of the model.                                                    *)
(***************************************************************************)
MaxSamples == 2     \* longest sample_ids list passed directly to the builder
MaxArgLen == 3      \* longest --samples string on the command line
MaxArgv == 3        \* most positional words given to create_igv_session.py

(***************************************************************************)
(* Input alphabets.                                                        *)
(***************************************************************************)
CtrlA == "^A"       \* one character, U+0001: not allowed in an XML document

SampleIds == { <<>>, <<"a">>, <<"b">>, <<"a", "b">>, <<"a", " ">>, <<"s", "1">> }

Loci == { <<"c", "1", ":", "1", "-", "9">>, <<"c", CtrlA>> }

Genomes == { S_hg38, <<"t", "2", "t">> }

BaseUrls == { S_localhost, <<>> }

MethylationTypes == { S_count, S_model }

ArgChars == { "a", "b", ",", " " }

RECURSIVE StringsUpTo(_, _)
StringsUpTo(chars, n) ==
    IF n = 0 THEN { <<>> }
    ELSE LET shorter == StringsUpTo(chars, n - 1)
         IN  shorter \cup { Append(s, c) : s \in shorter, c \in chars }

RECURSIVE ListsUpTo(_, _)
ListsUpTo(elems, n) ==
    IF n = 0 THEN { <<>> }
    ELSE LET shorter == ListsUpTo(elems, n - 1)
         IN  shorter \cup { Append(s, e) : s \in shorter, e \in elems }

(***************************************************************************)
(* xml.etree.ElementTree                                                   *)
(***************************************************************************)
Element(tag, attrib, children) ==
    [tag |-> tag, attrib |-> attrib, children |-> children]

\* the attributes whose values are character sequences
CharAttrs == { "genome", "locus", "path", "index", "id", "name",
               "attributeKey", "dividerFractions" }

\* characters expat rejects in a document (ET.tostring writes them unescaped)
InvalidXmlChars == { CtrlA }

HasInvalidChar(s) == \E i \in 1..Len(s) : s[i] \in InvalidXmlChars

RECURSIVE WellFormed(_)
WellFormed(e) ==
    /\ \A k \in (DOMAIN e.attrib) \cap CharAttrs : ~HasInvalidChar(e.attrib[k])
    /\ \A i \in 1..Len(e.children) : WellFormed(e.children[i])

\* ET.tostring, minidom.parseString, toprettyxml, blank lines dropped: the
\* returned text is represented by the tree it is the serialisation of;
\* parseString raises ExpatError on a character XML does not allow.
ToPrettyXml(session) ==
    IF WellFormed(session)
    THEN [ok |-> TRUE, root |-> session]
    ELSE [ok |-> FALSE, error |-> "ExpatError"]

(***************************************************************************)
(* create_igv_session.py: create_igv_session                               *)
(***************************************************************************)
SingleMethPath(base_url, individual_id, parent, methylation_type, genome) ==
    base_url \o S_founder_phased \o individual_id \o S_dna_methylation
        \o parent \o S_dot \o methylation_type \o S_dot \o genome \o S_bw

SingleMethName(individual_id, parent, methylation_type, genome) ==
    individual_id \o S_dna_methylation
        \o parent \o S_dot \o methylation_type \o S_dot \o genome \o S_bw

SingleBedPath(base_url, individual_id, parent) ==
    base_url \o S_founder_phased \o individual_id \o S_hap_map_blocks
        \o parent \o S_sorted_bed_gz

SingleBedName(individual_id, parent) ==
    individual_id \o S_hap_map_blocks \o parent \o S_sorted_bed_gz

SingleBamPath(base_url, individual_id) ==
    base_url \o S_read_backed_phased \o individual_id \o S_haplotagged_bam

SingleMethResource(base_url, individual_id, parent, methylation_type, genome) ==
    Element("Resource",
            [path |-> SingleMethPath(base_url, individual_id, parent,
                                     methylation_type, genome),
             type |-> "bw"],
            <<>>)

SingleBedResource(base_url, individual_id, parent) ==
    Element("Resource",
            [index |-> SingleBedPath(base_url, individual_id, parent) \o S_tbi,
             path |-> SingleBedPath(base_url, individual_id, parent),
             type |-> "bed"],
            <<>>)

\* mutant: the BAM index named like a tabix index
SingleBamResource_TbiIndex(base_url, individual_id) ==
    Element("Resource",
            [index |-> SingleBamPath(base_url, individual_id) \o S_tbi,
             path |-> SingleBamPath(base_url, individual_id),
             type |-> "bam"],
            <<>>)

SingleBamResource(base_url, individual_id) ==
    Element("Resource",
            [index |-> SingleBamPath(base_url, individual_id) \o S_bai,
             path |-> SingleBamPath(base_url, individual_id),
             type |-> "bam"],
            <<>>)

\* mutant: the BAM resource declared whether or not BAM tracks are wanted
SingleResources_AlwaysBam(individual_id, genome, base_url, include_bam_tracks, methylation_type) ==
    Element("Resources", <<>>,
            << SingleMethResource(base_url, individual_id, S_mat,
                                  methylation_type, genome),
               SingleMethResource(base_url, individual_id, S_pat,
                                  methylation_type, genome),
               SingleBedResource(base_url, individual_id, S_paternal),
               SingleBedResource(base_url, individual_id, S_maternal),
               SingleBamResource(base_url, individual_id) >>)

SingleResources(individual_id, genome, base_url, include_bam_tracks, methylation_type) ==
    Element("Resources", <<>>,
            << SingleMethResource(base_url, individual_id, S_mat,
                                  methylation_type, genome),
               SingleMethResource(base_url, individual_id, S_pat,
                                  methylation_type, genome),
               SingleBedResource(base_url, individual_id, S_paternal),
               SingleBedResource(base_url, individual_id, S_maternal) >>
            \o (IF include_bam_tracks
                THEN << SingleBamResource(base_url, individual_id) >>
                ELSE << >>))

SingleMethTrack(base_url, individual_id, parent, methylation_type, genome) ==
    Element("Track",
            [attributeKey |-> SingleMethName(individual_id, parent,
                                             methylation_type, genome),
             autoScale |-> "false",
             clazz |-> "org.broad.igv.track.DataSourceTrack",
             fontSize |-> "10",
             id |-> SingleMethPath(base_url, individual_id, parent,
                                   methylation_type, genome),
             name |-> SingleMethName(individual_id, parent,
                                     methylation_type, genome),
             renderer |-> "BAR_CHART",
             visible |-> "true",
             windowFunction |-> "mean"],
            << Element("DataRange",
                       [baseline |-> "0.0", drawBaseline |-> "true",
                        flipAxis |-> "false", maximum |-> "1.0",
                        minimum |-> "0.0", type |-> "LINEAR"],
                       <<>>) >>)

SingleDataPanel(individual_id, genome, base_url, methylation_type) ==
    Element("Panel", [name |-> S_DataPanel, height |-> "200"],
            << SingleMethTrack(base_url, individual_id, S_pat,
                               methylation_type, genome),
               SingleMethTrack(base_url, individual_id, S_mat,
                               methylation_type, genome) >>)

CoverageTrack(base_url, individual_id) ==
    Element("Track",
            [attributeKey |-> individual_id \o S_haplotagged_bam
                                  \o S_coverage_name,
             autoScale |-> "true",
             clazz |-> "org.broad.igv.sam.CoverageTrack",
             fontSize |-> "10",
             id |-> SingleBamPath(base_url, individual_id) \o S_coverage_id,
             name |-> individual_id \o S_haplotagged_bam \o S_coverage_name,
             snpThreshold |-> "0.2",
             visible |-> "true"],
            << Element("DataRange",
                       [baseline |-> "0.0", drawBaseline |-> "true",
                        flipAxis |-> "false", minimum |-> "0.0",
                        type |-> "LINEAR"],
                       <<>>) >>)

\* mutant: the alignment track identified by its file name, not its URL
AlignmentTrack_NameAsId(base_url, individual_id) ==
    Element("Track",
            [attributeKey |-> individual_id \o S_haplotagged_bam,
             clazz |-> "org.broad.igv.sam.AlignmentTrack",
             color |-> "185,185,185",
             displayMode |-> "FULL",
             experimentType |-> "THIRD_GEN",
             fontSize |-> "10",
             id |-> individual_id \o S_haplotagged_bam,
             name |-> individual_id \o S_haplotagged_bam,
             visible |-> "true"],
            << Element("RenderOptions",
                       [basemodFilter |-> "m,",
                        colorOption |-> "BASE_MODIFICATION_2COLOR",
                        duplicatesOption |-> "FILTER",
                        groupByOption |-> "PHASE",
                        hideSmallIndels |-> "true",
                        shadeBasesOption |-> "false",
                        showMismatches |-> "true",
                        smallIndelThreshold |-> "50"],
                       <<>>) >>)

AlignmentTrack(base_url, individual_id) ==
    Element("Track",
            [attributeKey |-> individual_id \o S_haplotagged_bam,
             clazz |-> "org.broad.igv.sam.AlignmentTrack",
             color |-> "185,185,185",
             displayMode |-> "FULL",
             experimentType |-> "THIRD_GEN",
             fontSize |-> "10",
             id |-> SingleBamPath(base_url, individual_id),
             name |-> individual_id \o S_haplotagged_bam,
             visible |-> "true"],
            << Element("RenderOptions",
                       [basemodFilter |-> "m,",
                        colorOption |-> "BASE_MODIFICATION_2COLOR",
                        duplicatesOption |-> "FILTER",
                        groupByOption |-> "PHASE",
                        hideSmallIndels |-> "true",
                        shadeBasesOption |-> "false",
                        showMismatches |-> "true",
                        smallIndelThreshold |-> "50"],
                       <<>>) >>)

\* mutant: the BAM panel given the name of the data panel
SingleBamPanel_NamedData(individual_id, base_url) ==
    Element("Panel",
            [name |-> S_DataPanel, height |-> "400"],
            << CoverageTrack(base_url, individual_id),
               AlignmentTrack(base_url, individual_id) >>)

SingleBamPanel(individual_id, base_url) ==
    Element("Panel",
            [name |-> S_Panel \o individual_id \o S_bam_panel,
             height |-> "400"],
            << CoverageTrack(base_url, individual_id),
               AlignmentTrack(base_url, individual_id) >>)

SingleReferenceTrack ==
    Element("Track",
            [attributeKey |-> S_Reference_sequence,
             clazz |-> "org.broad.igv.track.SequenceTrack",
             fontSize |-> "10",
             id |-> S_Reference_sequence,
             name |-> S_Reference_sequence,
             sequenceTranslationStrandValue |-> "+",
             shouldShowTranslation |-> "false",
             visible |-> "true"],
            <<>>)

RefseqSelectTrack ==
    Element("Track",
            [attributeKey |-> S_Refseq_Select,
             clazz |-> "org.broad.igv.track.FeatureTrack",
             colorScale |-> "ContinuousColorScale;0.0;127.0;255,255,255;0,0,178",
             fontSize |-> "10",
             groupByStrand |-> "false",
             id |-> S_refseq_url,
             name |-> S_Refseq_Select,
             visible |-> "true"],
            <<>>)

SingleBedTrack(base_url, individual_id, parent) ==
    Element("Track",
            [attributeKey |-> SingleBedName(individual_id, parent),
             clazz |-> "org.broad.igv.track.FeatureTrack",
             featureVisibilityWindow |-> "2147483647",
             fontSize |-> "10",
             groupByStrand |-> "false",
             id |-> SingleBedPath(base_url, individual_id, parent),
             name |-> SingleBedName(individual_id, parent),
             visible |-> "true"],
            <<>>)

SingleFeaturePanel(individual_id, base_url) ==
    Element("Panel", [name |-> S_FeaturePanel, height |-> "150"],
            << SingleReferenceTrack,
               RefseqSelectTrack,
               SingleBedTrack(base_url, individual_id, S_paternal),
               SingleBedTrack(base_url, individual_id, S_maternal) >>)

\* mutant: the two layouts attached to the wrong branches
SinglePanelLayout_Swapped(include_bam_tracks) ==
    IF include_bam_tracks
    THEN Element("PanelLayout", [dividerFractions |-> S_fractions_nobam], <<>>)
    ELSE Element("PanelLayout", [dividerFractions |-> S_fractions_bam], <<>>)

SinglePanelLayout(include_bam_tracks) ==
    IF include_bam_tracks
    THEN Element("PanelLayout", [dividerFractions |-> S_fractions_bam], <<>>)
    ELSE Element("PanelLayout", [dividerFractions |-> S_fractions_nobam], <<>>)

SingleSession(individual_id, locus, genome, base_url, include_bam_tracks, methylation_type) ==
    Element("Session",
            [genome |-> genome, locus |-> locus, version |-> "8"],
            << SingleResources(individual_id, genome, base_url,
                               include_bam_tracks, methylation_type),
               SingleDataPanel(individual_id, genome, base_url,
                               methylation_type) >>
            \o (IF include_bam_tracks
                THEN << SingleBamPanel(individual_id, base_url) >>
                ELSE << >>)
            \o << SingleFeaturePanel(individual_id, base_url),
                  SinglePanelLayout(include_bam_tracks) >>)

create_igv_session(individual_id, locus, genome, base_url, include_bam_tracks, methylation_type) ==
    ToPrettyXml(SingleSession(individual_id, locus, genome, base_url,
                              include_bam_tracks, methylation_type))

(***************************************************************************)
(* multiple-individuals.py: create_multi_sample_igv_session                *)
(***************************************************************************)
UpperChar(c) ==
    LET up == [a |-> "A", b |-> "B", c |-> "C", d |-> "D", e |-> "E",
               f |-> "F", g |-> "G", h |-> "H", i |-> "I", j |-> "J",
               k |-> "K", l |-> "L", m |-> "M", n |-> "N", o |-> "O",
               p |-> "P", q |-> "Q", r |-> "R", s |-> "S", t |-> "T",
               u |-> "U", v |-> "V", w |-> "W", x |-> "X", y |-> "Y",
               z |-> "Z"]
    IN  IF c \in DOMAIN up THEN up[c] ELSE c

\* str.upper()
Upper(s) == [i \in 1..Len(s) |-> UpperChar(s[i])]

\* s[:n]
Prefix(s, n) == SubSeq(s, 1, IF n < Len(s) THEN n ELSE Len(s))

\* ET.SubElement(parent, tag, attrib): the new element becomes the last child
SubElement(children, elem) == Append(children, elem)

VcfPath(base_url) == base_url \o S_vcf_joint

VcfIhtPath(base_url) == base_url \o S_vcf_iht

VcfResource(vcf_path) ==
    Element("Resource",
            [index |-> vcf_path \o S_tbi, path |-> vcf_path, type |-> "vcf"],
            <<>>)

JointVcfTrack(vcf_path) ==
    Element("Track",
            [attributeKey |-> S_joint_vcf,
             clazz |-> "org.broad.igv.variant.VariantTrack",
             displayMode |-> "COLLAPSED",
             fontSize |-> "10",
             id |-> vcf_path,
             name |-> S_All_variants,
             visible |-> "true"],
            <<>>)

PhasedVcfTrack(vcf_iht_path) ==
    Element("Track",
            [attributeKey |-> S_joint_vcf_iht_phased,
             clazz |-> "org.broad.igv.variant.VariantTrack",
             fontSize |-> "10",
             id |-> vcf_iht_path,
             name |-> S_Phased_variants,
             visible |-> "true"],
            <<>>)

MultiMethPath(base_url, sample_id, parent, methylation_type, genome) ==
    base_url \o S_founder_phased \o sample_id \o S_dna_methylation
        \o parent \o S_dot \o methylation_type \o S_dot \o genome \o S_bw

MultiMethResource(path) ==
    Element("Resource", [path |-> path, type |-> "bw"], <<>>)

MultiMethTrack(path, sample_id, parent) ==
    Element("Track",
            [attributeKey |-> sample_id \o S_underscore \o parent \o S_meth,
             autoScale |-> "false",
             clazz |-> "org.broad.igv.track.DataSourceTrack",
             fontSize |-> "10",
             id |-> path,
             name |-> sample_id \o S_space \o Upper(parent) \o S_Methylation,
             renderer |-> "BAR_CHART",
             visible |-> "true",
             windowFunction |-> "mean"],
            << Element("DataRange",
                       [baseline |-> "0.0", drawBaseline |-> "true",
                        maximum |-> "1.0", minimum |-> "0.0",
                        type |-> "LINEAR"],
                       <<>>) >>)

\* mutant: the parent left out of the haplotype-block path
MultiBedPath_NoParent(base_url, sample_id, parent) ==
    base_url \o S_founder_phased \o sample_id \o S_hap_map_blocks
        \o S_sorted_bed_gz

MultiBedPath(base_url, sample_id, parent) ==
    base_url \o S_founder_phased \o sample_id \o S_hap_map_blocks
        \o parent \o S_sorted_bed_gz

MultiBedResource(bed_path) ==
    Element("Resource",
            [index |-> bed_path \o S_tbi, path |-> bed_path, type |-> "bed"],
            <<>>)

MultiBedTrack(bed_path, sample_id, parent) ==
    Element("Track",
            [attributeKey |-> sample_id \o S_underscore \o parent \o S_blocks,
             clazz |-> "org.broad.igv.track.FeatureTrack",
             featureVisibilityWindow |-> "2147483647",
             fontSize |-> "10",
             id |-> bed_path,
             name |-> sample_id \o S_space \o Prefix(Upper(parent), 3)
                          \o S_Blocks,
             visible |-> "true"],
            <<>>)

\* The children of the three containers the builder appends to.
\* Lines 37-63: the two VCF resources and their tracks.
AddVcfs(st, base_url) ==
    [resources |->
         SubElement(SubElement(st.resources, VcfResource(VcfPath(base_url))),
                    VcfResource(VcfIhtPath(base_url))),
     data_panel |-> st.data_panel,
     feature_panel |->
         SubElement(SubElement(st.feature_panel,
                               JointVcfTrack(VcfPath(base_url))),
                    PhasedVcfTrack(VcfIhtPath(base_url)))]

\* one iteration of `for parent in ["pat", "mat"]`
AddMeth(st, base_url, sample_id, parent, methylation_type, genome) ==
    LET path == MultiMethPath(base_url, sample_id, parent,
                              methylation_type, genome)
    IN  [resources |-> SubElement(st.resources, MultiMethResource(path)),
         data_panel |-> SubElement(st.data_panel,
                                   MultiMethTrack(path, sample_id, parent)),
         feature_panel |-> st.feature_panel]

\* one iteration of `for parent in ["paternal", "maternal"]`
AddBed(st, base_url, sample_id, parent) ==
    LET bed_path == MultiBedPath(base_url, sample_id, parent)
    IN  [resources |-> SubElement(st.resources, MultiBedResource(bed_path)),
         data_panel |-> st.data_panel,
         feature_panel |-> SubElement(st.feature_panel,
                                      MultiBedTrack(bed_path, sample_id,
                                                    parent))]

\* mutant: the maternal blocks added before the paternal blocks
AddSample_MaternalFirst(st, base_url, sample_id, methylation_type, genome) ==
    LET m1 == AddMeth(st, base_url, sample_id, S_pat, methylation_type, genome)
        m2 == AddMeth(m1, base_url, sample_id, S_mat, methylation_type, genome)
        b1 == AddBed(m2, base_url, sample_id, S_maternal)
    IN  AddBed(b1, base_url, sample_id, S_paternal)

\* the body of `for sample_id in sample_ids`
AddSample(st, base_url, sample_id, methylation_type, genome) ==
    LET m1 == AddMeth(st, base_url, sample_id, S_pat, methylation_type, genome)
        m2 == AddMeth(m1, base_url, sample_id, S_mat, methylation_type, genome)
        b1 == AddBed(m2, base_url, sample_id, S_paternal)
    IN  AddBed(b1, base_url, sample_id, S_maternal)

RECURSIVE AddSamples(_, _, _, _, _)
AddSamples(st, base_url, sample_ids, methylation_type, genome) ==
    IF sample_ids = <<>> THEN st
    ELSE AddSamples(AddSample(st, base_url, Head(sample_ids),
                              methylation_type, genome),
                    base_url, Tail(sample_ids), methylation_type, genome)

MultiReferenceTrack ==
    Element("Track",
            [clazz |-> "org.broad.igv.track.SequenceTrack",
             fontSize |-> "10",
             id |-> S_Reference_sequence,
             name |-> S_Reference_sequence,
             visible |-> "true"],
            <<>>)

AddReference(st) ==
    [st EXCEPT !.feature_panel = SubElement(@, MultiReferenceTrack)]

MultiPanelLayout ==
    Element("PanelLayout", [dividerFractions |-> S_fractions_multi], <<>>)

MultiSession(sample_ids, locus, genome, base_url, methylation_type) ==
    LET empty == [resources |-> <<>>, data_panel |-> <<>>,
                  feature_panel |-> <<>>]
        st == AddReference(AddSamples(AddVcfs(empty, base_url), base_url,
                                      sample_ids, methylation_type, genome))
    IN  Element("Session",
                [genome |-> genome, locus |-> locus, version |-> "8"],
                << Element("Resources", <<>>, st.resources),
                   Element("Panel", [name |-> S_DataPanel, height |-> "400"],
                           st.data_panel),
                   Element("Panel",
                           [name |-> S_FeaturePanel, height |-> "200"],
                           st.feature_panel),
                   MultiPanelLayout >>)

create_multi_sample_igv_session(sample_ids, locus, genome, base_url, methylation_type) ==
    ToPrettyXml(MultiSession(sample_ids, locus, genome, base_url,
                             methylation_type))

(***************************************************************************)
(* str.split(",") and str.strip()                                          *)
(***************************************************************************)
\* ASCII whitespace, the characters str.strip() removes
Whitespace == { " ", "\t", "\n", "\r", "\f" }

RECURSIVE LStrip(_)
LStrip(s) ==
    IF s # <<>> /\ Head(s) \in Whitespace THEN LStrip(Tail(s)) ELSE s

RECURSIVE RStrip(_)
RStrip(s) ==
    IF s # <<>> /\ s[Len(s)] \in Whitespace
    THEN RStrip(SubSeq(s, 1, Len(s) - 1))
    ELSE s

Strip(s) == RStrip(LStrip(s))

\* s.split(sep) for a one-character separator: the fields between the
\* separators, empty fields kept
RECURSIVE SplitFrom(_, _, _, _)
SplitFrom(s, sep, i, field) ==
    IF i > Len(s) THEN << field >>
    ELSE IF s[i] = sep
         THEN << field >> \o SplitFrom(s, sep, i + 1, <<>>)
         ELSE SplitFrom(s, sep, i + 1, Append(field, s[i]))

Split(s, sep) == SplitFrom(s, sep, 1, <<>>)

\* mutant: empty fields dropped, [s.strip() for s in ... if s.strip()]
SampleList_DropEmpty(samples) ==
    LET fields == Split(samples, ",")
        stripped == [i \in 1..Len(fields) |-> Strip(fields[i])]
    IN  SelectSeq(stripped, LAMBDA s : s # <<>>)

\* [s.strip() for s in samples.split(",")]
SampleList(samples) ==
    LET fields == Split(samples, ",")
    IN  [i \in 1..Len(fields) |-> Strip(fields[i])]

(***************************************************************************)
(* The two command-line programs and a caller of the builder functions.    *)
(***************************************************************************)
SingleProg == "create_igv_session.py"
MultiProg == "multiple-individuals.py"
Caller == "caller"

NoArgs == [parsed |-> FALSE]
NoCall == [fn |-> "none"]
NoContent == [ok |-> FALSE, error |-> "None"]

\* words that may be given as positional arguments
Words == SampleIds \cup Loci

\* values that may be given to --out
OutNames == { <<"o">>, <<"/", "o">> }

\* an exception nothing catches ends the process with a traceback, status 1
OnException == "failed"

\* os.path.join(a, b)
PathJoin(a, b) ==
    IF b # <<>> /\ Head(b) = "/" THEN b ELSE a \o S_slash \o b

SingleOutputFile(a) ==
    S_igv_sessions \o S_slash \o a.individual_id \o S_dot \o a.locus \o S_xml

MultiOutputPath(a) == PathJoin(S_igv_sessions, a.out)

Init ==
    /\ pc = "start"
    /\ prog = "none"
    /\ args = NoArgs
    /\ sample_list = <<>>
    /\ call = NoCall
    /\ xml_content = NoContent
    /\ prev = [call |-> NoCall, xml_content |-> NoContent]
    /\ dir_exists \in BOOLEAN
    /\ dirs_created = 0
    /\ files_written = <<>>
    /\ stdout = <<>>
    /\ exit_code = -1

\* create_igv_session.py main: parser.parse_args() with two positionals
SingleParseArgs ==
    /\ pc = "start"
    /\ \E argv \in ListsUpTo(Words, MaxArgv) :
          IF Len(argv) = 2
          THEN /\ args' = [parsed |-> TRUE, individual_id |-> argv[1],
                           locus |-> argv[2]]
               /\ pc' = "build"
               /\ exit_code' = exit_code
          ELSE /\ args' = args
               /\ pc' = "failed"
               /\ exit_code' = 2
    /\ prog' = SingleProg
    /\ UNCHANGED <<sample_list, call, xml_content, prev, dir_exists,
                   dirs_created, files_written, stdout>>

\* create_igv_session.py main: xml_content = create_igv_session(...)
SingleBuild ==
    /\ pc = "build"
    /\ prog = SingleProg
    /\ call' = [fn |-> "create_igv_session",
                individual_id |-> args.individual_id,
                locus |-> args.locus,
                genome |-> S_hg38,
                base_url |-> S_localhost,
                include_bam_tracks |-> TRUE,
                methylation_type |-> S_count]
    /\ xml_content' = create_igv_session(args.individual_id, args.locus,
                                         S_hg38, S_localhost, TRUE, S_count)
    /\ IF xml_content'.ok
       THEN pc' = "makedirs" /\ exit_code' = exit_code
       ELSE pc' = OnException /\ exit_code' = 1
    /\ UNCHANGED <<prog, args, sample_list, prev, dir_exists, dirs_created,
                   files_written, stdout>>

\* os.makedirs(sessions_dir, exist_ok=True); it may raise OSError
MakeDirs(p) ==
    /\ pc = "makedirs"
    /\ prog = p
    /\ \E ok \in BOOLEAN :
          IF ok
          THEN /\ dir_exists' = TRUE
               /\ dirs_created' = dirs_created + (IF dir_exists THEN 0 ELSE 1)
               /\ pc' = "write"
               /\ exit_code' = exit_code
          ELSE /\ UNCHANGED <<dir_exists, dirs_created>>
               /\ pc' = OnException
               /\ exit_code' = 1
    /\ UNCHANGED <<prog, args, sample_list, call, xml_content, prev,
                   files_written, stdout>>

\* mutant: a failed write is ignored and the program carries on
WriteFile_IgnoreError(p, path) ==
    /\ pc = "write"
    /\ prog = p
    /\ \E ok \in BOOLEAN :
          IF ok
          THEN /\ files_written' = Append(files_written, path)
               /\ pc' = "print"
               /\ exit_code' = exit_code
          ELSE /\ files_written' = files_written
               /\ pc' = "print"
               /\ exit_code' = exit_code
    /\ UNCHANGED <<prog, args, sample_list, call, xml_content, prev,
                   dir_exists, dirs_created, stdout>>

\* with open(path, 'w') as f: f.write(xml_content); it may raise OSError
WriteFile(p, path) ==
    /\ pc = "write"
    /\ prog = p
    /\ \E ok \in BOOLEAN :
          IF ok
          THEN /\ files_written' = Append(files_written, path)
               /\ pc' = "print"
               /\ exit_code' = exit_code
          ELSE /\ files_written' = files_written
               /\ pc' = OnException
               /\ exit_code' = 1
    /\ UNCHANGED <<prog, args, sample_list, call, xml_content, prev,
                   dir_exists, dirs_created, stdout>>

\* print(f"...: {path}"), then the program ends with status 0
PrintConfirmation(p, message, path) ==
    /\ pc = "print"
    /\ prog = p
    /\ stdout' = Append(stdout, message \o path)
    /\ pc' = "done"
    /\ exit_code' = 0
    /\ UNCHANGED <<prog, args, sample_list, call, xml_content, prev,
                   dir_exists, dirs_created, files_written>>

SingleMakeDirs == MakeDirs(SingleProg)

SingleWriteFile == WriteFile(SingleProg, SingleOutputFile(args))

SinglePrint ==
    PrintConfirmation(SingleProg, S_single_created, SingleOutputFile(args))

\* multiple-individuals.py main: parser.parse_args(); --samples and --locus
\* are required, --out has a default
MultiParseArgs ==
    /\ pc = "start"
    /\ \E given \in SUBSET { "samples", "locus", "out" } :
          IF { "samples", "locus" } \subseteq given
          THEN /\ \E samples \in StringsUpTo(ArgChars, MaxArgLen),
                     locus \in Loci, out \in OutNames :
                     args' = [parsed |-> TRUE, samples |-> samples,
                              locus |-> locus,
                              out |-> IF "out" \in given THEN out
                                      ELSE S_multi_out_default]
               /\ pc' = "split"
               /\ exit_code' = exit_code
          ELSE /\ args' = args
               /\ pc' = "failed"
               /\ exit_code' = 2
    /\ prog' = MultiProg
    /\ UNCHANGED <<sample_list, call, xml_content, prev, dir_exists,
                   dirs_created, files_written, stdout>>

\* sample_list = [s.strip() for s in args.samples.split(",")]
MultiSplitSamples ==
    /\ pc = "split"
    /\ prog = MultiProg
    /\ sample_list' = SampleList(args.samples)
    /\ pc' = "build"
    /\ UNCHANGED <<prog, args, call, xml_content, prev, dir_exists,
                   dirs_created, files_written, stdout, exit_code>>

\* xml_content = create_multi_sample_igv_session(sample_list, args.locus)
MultiBuild ==
    /\ pc = "build"
    /\ prog = MultiProg
    /\ call' = [fn |-> "create_multi_sample_igv_session",
                sample_ids |-> sample_list,
                locus |-> args.locus,
                genome |-> S_hg38,
                base_url |-> S_localhost,
                methylation_type |-> S_count]
    /\ xml_content' = create_multi_sample_igv_session(
                          sample_list, args.locus, S_hg38, S_localhost,
                          S_count)
    /\ IF xml_content'.ok
       THEN pc' = "makedirs" /\ exit_code' = exit_code
       ELSE pc' = OnException /\ exit_code' = 1
    /\ UNCHANGED <<prog, args, sample_list, prev, dir_exists, dirs_created,
                   files_written, stdout>>

MultiMakeDirs == MakeDirs(MultiProg)

MultiWriteFile == WriteFile(MultiProg, MultiOutputPath(args))

MultiPrint ==
    PrintConfirmation(MultiProg, S_multi_created, MultiOutputPath(args))

\* a direct call of create_igv_session with any arguments
CallCreateIgvSession ==
    /\ pc = "start"
    /\ \E individual_id \in SampleIds, locus \in Loci, genome \in Genomes,
          base_url \in BaseUrls, include_bam_tracks \in BOOLEAN,
          methylation_type \in MethylationTypes :
          /\ call' = [fn |-> "create_igv_session",
                      individual_id |-> individual_id,
                      locus |-> locus,
                      genome |-> genome,
                      base_url |-> base_url,
                      include_bam_tracks |-> include_bam_tracks,
                      methylation_type |-> methylation_type]
          /\ xml_content' = create_igv_session(individual_id, locus, genome,
                                               base_url, include_bam_tracks,
                                               methylation_type)
    /\ prog' = Caller
    /\ pc' = "returned"
    /\ UNCHANGED <<args, sample_list, prev, dir_exists, dirs_created,
                   files_written, stdout, exit_code>>

\* the caller builds the document again with include_bam_tracks toggled and
\* keeps the first document to compare
CallAgainToggled ==
    /\ pc = "returned"
    /\ prog = Caller
    /\ call.fn = "create_igv_session"
    /\ prev' = [call |-> call, xml_content |-> xml_content]
    /\ call' = [call EXCEPT !.include_bam_tracks = ~@]
    /\ xml_content' = create_igv_session(call.individual_id, call.locus,
                                         call.genome, call.base_url,
                                         ~call.include_bam_tracks,
                                         call.methylation_type)
    /\ pc' = "returned2"
    /\ UNCHANGED <<prog, args, sample_list, dir_exists, dirs_created,
                   files_written, stdout, exit_code>>

\* a direct call of create_multi_sample_igv_session with any arguments
CallCreateMultiSampleIgvSession ==
    /\ pc = "start"
    /\ \E sample_ids \in ListsUpTo(SampleIds, MaxSamples), locus \in Loci,
          genome \in Genomes, base_url \in BaseUrls,
          methylation_type \in MethylationTypes :
          /\ call' = [fn |-> "create_multi_sample_igv_session",
                      sample_ids |-> sample_ids,
                      locus |-> locus,
                      genome |-> genome,
                      base_url |-> base_url,
                      methylation_type |-> methylation_type]
          /\ xml_content' = create_multi_sample_igv_session(
                                sample_ids, locus, genome, base_url,
                                methylation_type)
    /\ prog' = Caller
    /\ pc' = "returned"
    /\ UNCHANGED <<args, sample_list, prev, dir_exists, dirs_created,
                   files_written, stdout, exit_code>>

Next ==
    \/ SingleParseArgs
    \/ SingleBuild
    \/ SingleMakeDirs
    \/ SingleWriteFile
    \/ SinglePrint
    \/ MultiParseArgs
    \/ MultiSplitSamples
    \/ MultiBuild
    \/ MultiMakeDirs
    \/ MultiWriteFile
    \/ MultiPrint
    \/ CallCreateIgvSession
    \/ CallAgainToggled
    \/ CallCreateMultiSampleIgvSession

Spec == Init /\ [][Next]_vars

(***************************************************************************)
(* Reading a produced document.                                            *)
(***************************************************************************)
Produced == xml_content.ok

BySingle == call.fn = "create_igv_session"

ByMulti == call.fn = "create_multi_sample_igv_session"

ChildrenOf(e, tag) == SelectSeq(e.children, LAMBDA c : c.tag = tag)

ResourcesOf(root) == ChildrenOf(ChildrenOf(root, "Resources")[1], "Resource")

PanelsOf(root) == ChildrenOf(root, "Panel")

RECURSIVE TracksOfPanels(_)
TracksOfPanels(panels) ==
    IF panels = <<>> THEN <<>>
    ELSE ChildrenOf(Head(panels), "Track") \o TracksOfPanels(Tail(panels))

TracksOf(root) == TracksOfPanels(PanelsOf(root))

PanelNamed(root, name) ==
    SelectSeq(PanelsOf(root), LAMBDA p : p.attrib.name = name)

DividerFractions(root) ==
    ChildrenOf(root, "PanelLayout")[1].attrib.dividerFractions

ResourcePaths(root) ==
    { ResourcesOf(root)[i].attrib.path : i \in 1..Len(ResourcesOf(root)) }

TrackIds(root) ==
    { TracksOf(root)[i].attrib.id : i \in 1..Len(TracksOf(root)) }

Distinct(seq) ==
    \A i, j \in 1..Len(seq) : i # j => seq[i] # seq[j]

UniqueTrackIds(root) ==
    \A i, j \in 1..Len(TracksOf(root)) :
        i # j => TracksOf(root)[i].attrib.id # TracksOf(root)[j].attrib.id

(***************************************************************************)
(* C1: in every produced document each Resource of type bed or vcf has a   *)
(* non-empty index attribute equal to its path followed by ".tbi", each    *)
(* Resource of type bam has one equal to its path followed by ".bai", and  *)
(* each Resource of type bw has no index attribute.                        *)
(***************************************************************************)
IndexMatches(r) ==
    CASE r.attrib.type \in { "bed", "vcf" } ->
             /\ "index" \in DOMAIN r.attrib
             /\ r.attrib.index # <<>>
             /\ r.attrib.index = r.attrib.path \o <<".", "t", "b", "i">>
      [] r.attrib.type = "bam" ->
             /\ "index" \in DOMAIN r.attrib
             /\ r.attrib.index # <<>>
             /\ r.attrib.index = r.attrib.path \o <<".", "b", "a", "i">>
      [] r.attrib.type = "bw" -> "index" \notin DOMAIN r.attrib
      [] OTHER -> FALSE

C1_IndexedResources ==
    Produced =>
        \A i \in 1..Len(ResourcesOf(xml_content.root)) :
            IndexMatches(ResourcesOf(xml_content.root)[i])

C1_Witness ==
    /\ Produced
    /\ BySingle
    /\ call.include_bam_tracks
    /\ \E i \in 1..Len(ResourcesOf(xml_content.root)) :
          ResourcesOf(xml_content.root)[i].attrib.type = "bam"
    /\ \E i \in 1..Len(ResourcesOf(xml_content.root)) :
          ResourcesOf(xml_content.root)[i].attrib.type = "bed"
    /\ \E i \in 1..Len(ResourcesOf(xml_content.root)) :
          ResourcesOf(xml_content.root)[i].attrib.type = "bw"

(***************************************************************************)
(* C2: the document built with include_bam_tracks=False equals the one     *)
(* built from the same other arguments with include_bam_tracks=True after  *)
(* removing the one bam Resource and the one BAM Panel and replacing       *)
(* dividerFractions "0.15,0.75" by "0.30"; everything else, and the order  *)
(* of what remains, is the same.                                           *)
(***************************************************************************)
IsBamPanel(e, individual_id) ==
    /\ e.tag = "Panel"
    /\ e.attrib.name = <<"P", "a", "n", "e", "l">> \o individual_id
                           \o <<"_", "b", "a", "m">>

WithoutBamResource(e) ==
    [e EXCEPT !.children = SelectSeq(@, LAMBDA r : r.attrib.type # "bam")]

RetargetLayout(e) ==
    IF e.attrib.dividerFractions
           = <<"0", ".", "1", "5", ",", "0", ".", "7", "5">>
    THEN [e EXCEPT !.attrib.dividerFractions = <<"0", ".", "3", "0">>]
    ELSE e

RemoveBam(root, individual_id) ==
    LET kept == SelectSeq(root.children,
                          LAMBDA e : ~IsBamPanel(e, individual_id))
    IN  [root EXCEPT !.children =
             [i \in 1..Len(kept) |->
                 CASE kept[i].tag = "Resources" -> WithoutBamResource(kept[i])
                   [] kept[i].tag = "PanelLayout" -> RetargetLayout(kept[i])
                   [] OTHER -> kept[i]]]

BamResourceCount(root) ==
    Len(SelectSeq(ResourcesOf(root), LAMBDA r : r.attrib.type = "bam"))

BamPanelCount(root, individual_id) ==
    Len(SelectSeq(root.children, LAMBDA e : IsBamPanel(e, individual_id)))

ToggleHolds(with, without, individual_id) ==
    /\ without = RemoveBam(with, individual_id)
    /\ BamResourceCount(with) = 1
    /\ BamPanelCount(with, individual_id) = 1
    /\ Len(ResourcesOf(with)) = Len(ResourcesOf(without)) + 1
    /\ Len(PanelsOf(with)) = Len(PanelsOf(without)) + 1
    /\ DividerFractions(with) = <<"0", ".", "1", "5", ",", "0", ".", "7", "5">>
    /\ DividerFractions(without) = <<"0", ".", "3", "0">>

Toggled ==
    /\ pc = "returned2"
    /\ prev.xml_content.ok
    /\ xml_content.ok

C2_ToggleBamTracks ==
    Toggled =>
        IF prev.call.include_bam_tracks
        THEN ToggleHolds(prev.xml_content.root, xml_content.root,
                         call.individual_id)
        ELSE ToggleHolds(xml_content.root, prev.xml_content.root,
                         call.individual_id)

C2_Witness ==
    /\ Toggled
    /\ prev.call.include_bam_tracks
    /\ ~call.include_bam_tracks
    /\ prev.xml_content.root # xml_content.root

(***************************************************************************)
(* C3: the FeaturePanel of a multi-sample document holds exactly           *)
(* 2 + 2*n + 1 Tracks for n samples: the joint-call VCF track, the phased  *)
(* VCF track, then per sample in input order its paternal-blocks and its   *)
(* maternal-blocks track, and last the "Reference sequence" track; three   *)
(* Tracks for n = 0.                                                       *)
(***************************************************************************)
FeatureTracks(root) == ChildrenOf(PanelNamed(root, S_FeaturePanel)[1], "Track")

BlocksKey(sample_id, parent) ==
    sample_id \o <<"_">> \o parent \o <<"_", "b", "l", "o", "c", "k", "s">>

BlocksId(base_url, sample_id, parent) ==
    base_url \o S_founder_phased \o sample_id \o S_hap_map_blocks \o parent
        \o S_sorted_bed_gz

C3_FeaturePanelTracks ==
    (Produced /\ ByMulti) =>
        LET tracks == FeatureTracks(xml_content.root)
            n == Len(call.sample_ids)
        IN  /\ Len(PanelNamed(xml_content.root, S_FeaturePanel)) = 1
            /\ Len(tracks) = 2 + 2 * n + 1
            /\ n = 0 => Len(tracks) = 3
            /\ tracks[1].attrib.attributeKey = S_joint_vcf
            /\ tracks[1].attrib.id = call.base_url \o S_vcf_joint
            /\ tracks[2].attrib.attributeKey = S_joint_vcf_iht_phased
            /\ tracks[2].attrib.id = call.base_url \o S_vcf_iht
            /\ \A i \in 1..n :
                  /\ tracks[2 * i + 1].attrib.attributeKey
                         = BlocksKey(call.sample_ids[i], S_paternal)
                  /\ tracks[2 * i + 1].attrib.id
                         = BlocksId(call.base_url, call.sample_ids[i],
                                    S_paternal)
                  /\ tracks[2 * i + 2].attrib.attributeKey
                         = BlocksKey(call.sample_ids[i], S_maternal)
                  /\ tracks[2 * i + 2].attrib.id
                         = BlocksId(call.base_url, call.sample_ids[i],
                                    S_maternal)
            /\ tracks[2 * n + 3].attrib.id = S_Reference_sequence
            /\ tracks[2 * n + 3].attrib.clazz
                   = "org.broad.igv.track.SequenceTrack"

C3_Witness ==
    /\ Produced
    /\ ByMulti
    /\ Len(call.sample_ids) = 2
    /\ call.sample_ids[1] # call.sample_ids[2]
    /\ Len(FeatureTracks(xml_content.root)) = 7

(***************************************************************************)
(* C4: no two Tracks of a document have the same id, for the               *)
(* single-individual builder with any arguments and for the multi-sample   *)
(* builder called with pairwise distinct sample IDs.                       *)
(***************************************************************************)
C4_UniqueTrackIds ==
    /\ (Produced /\ BySingle) => UniqueTrackIds(xml_content.root)
    /\ (Produced /\ ByMulti /\ Distinct(call.sample_ids))
           => UniqueTrackIds(xml_content.root)

C4_Witness ==
    /\ Produced
    /\ ByMulti
    /\ Len(call.sample_ids) = 2
    /\ Distinct(call.sample_ids)
    /\ Len(TracksOf(xml_content.root)) = 11
    /\ Cardinality(TrackIds(xml_content.root)) = 11

(***************************************************************************)
(* C5: the PanelLayout's dividerFractions has (number of Panels - 1)       *)
(* entries, strictly increasing and strictly between 0 and 1; taken in     *)
(* document order the Panels get DataPanel 15% / BAM panel 60% /           *)
(* FeaturePanel 25% (single with BAM), DataPanel 30% / FeaturePanel 70%    *)
(* (single without BAM), DataPanel 60% / FeaturePanel 40% (multi).         *)
(***************************************************************************)
DigitValue(c) ==
    CASE c = "0" -> 0 [] c = "1" -> 1 [] c = "2" -> 2 [] c = "3" -> 3
      [] c = "4" -> 4 [] c = "5" -> 5 [] c = "6" -> 6 [] c = "7" -> 7
      [] c = "8" -> 8 [] c = "9" -> 9 [] OTHER -> -1000

\* the value of a decimal "d.dd" in hundredths
Hundredths(f) ==
    IF Len(f) = 4 /\ f[2] = "."
    THEN 100 * DigitValue(f[1]) + 10 * DigitValue(f[3]) + DigitValue(f[4])
    ELSE -1000

\* the divider positions of a document, in hundredths
Dividers(root) ==
    LET fields == Split(DividerFractions(root), ",")
    IN  [i \in 1..Len(fields) |-> Hundredths(fields[i])]

\* the panel sizes the dividers give, in percent, top to bottom
PanelSizes(root) ==
    LET d == Dividers(root)
        edge == <<0>> \o d \o <<100>>
    IN  [i \in 1..(Len(d) + 1) |-> edge[i + 1] - edge[i]]

PanelNames(root) ==
    [i \in 1..Len(PanelsOf(root)) |-> PanelsOf(root)[i].attrib.name]

C5_PanelLayout ==
    Produced =>
        LET root == xml_content.root
            d == Dividers(root)
        IN  /\ Len(ChildrenOf(root, "PanelLayout")) = 1
            /\ Len(d) = Len(PanelsOf(root)) - 1
            /\ \A i \in 1..Len(d) : 0 < d[i] /\ d[i] < 100
            /\ \A i \in 1..(Len(d) - 1) : d[i] < d[i + 1]
            /\ (BySingle /\ call.include_bam_tracks) =>
                   /\ PanelNames(root)
                          = << S_DataPanel,
                               S_Panel \o call.individual_id \o S_bam_panel,
                               S_FeaturePanel >>
                   /\ PanelSizes(root) = <<15, 60, 25>>
            /\ (BySingle /\ ~call.include_bam_tracks) =>
                   /\ PanelNames(root) = << S_DataPanel, S_FeaturePanel >>
                   /\ PanelSizes(root) = <<30, 70>>
            /\ ByMulti =>
                   /\ PanelNames(root) = << S_DataPanel, S_FeaturePanel >>
                   /\ PanelSizes(root) = <<60, 40>>

C5_Witness ==
    /\ Produced
    /\ BySingle
    /\ call.include_bam_tracks
    /\ Len(PanelsOf(xml_content.root)) = 3
    /\ Dividers(xml_content.root) = <<15, 75>>

(***************************************************************************)
(* C6: each command-line program parses its arguments, builds the whole    *)
(* document, creates the igv-sessions directory if absent, writes the      *)
(* output file and prints the confirmation, in that order: at most one     *)
(* file is written; nothing is created or written when parsing or building *)
(* fails; the confirmation is printed only after the file was written, and *)
(* a failed run prints no confirmation.                                    *)
(***************************************************************************)
IsCli == prog \in { SingleProg, MultiProg }

C6_MainOrder ==
    IsCli =>
        /\ Len(files_written) <= 1
        /\ dirs_created <= 1
        /\ Produced => args.parsed
        /\ exit_code = 2 => (~args.parsed /\ ~Produced)
        /\ ~Produced => (dirs_created = 0 /\ files_written = <<>>)
        /\ dirs_created = 1 => (Produced /\ dir_exists)
        /\ files_written # <<>> => (Produced /\ dir_exists)
        /\ stdout # <<>> =>
               /\ Len(stdout) = 1
               /\ Len(files_written) = 1
               /\ pc = "done"
               /\ exit_code = 0
        /\ pc = "failed" => (stdout = <<>> /\ exit_code \in { 1, 2 })
        /\ pc = "done" => stdout # <<>>

C6_Witness ==
    /\ IsCli
    /\ pc = "done"
    /\ dirs_created = 1
    /\ Len(files_written) = 1
    /\ Len(stdout) = 1

(***************************************************************************)
(* C7: multiple-individuals.py passes to the builder one sample ID per     *)
(* comma-separated field of --samples (number of commas + 1, so never an   *)
(* empty list), in the order given, each with leading and trailing         *)
(* whitespace removed; empty and whitespace-only fields are kept as empty  *)
(* sample IDs and duplicates are kept.                                     *)
(***************************************************************************)
CommaPositions(s) == { p \in 1..Len(s) : s[p] = "," }

\* the position of the k-th comma of s; 0 for k = 0, Len(s) + 1 past the last
NthComma(s, k) ==
    IF k = 0 THEN 0
    ELSE IF k > Cardinality(CommaPositions(s)) THEN Len(s) + 1
    ELSE CHOOSE p \in CommaPositions(s) :
             Cardinality({ q \in CommaPositions(s) : q <= p }) = k

\* the k-th comma-separated field of s
Field(s, k) == SubSeq(s, NthComma(s, k - 1) + 1, NthComma(s, k) - 1)

Blank(c) == c \in { " ", "\t", "\n", "\r", "\f" }

\* e is f without its leading and trailing whitespace
IsTrimmed(e, f) ==
    /\ e = <<>> \/ (~Blank(e[1]) /\ ~Blank(e[Len(e)]))
    /\ \E a \in 1..(Len(f) + 1) :
          /\ a + Len(e) - 1 <= Len(f)
          /\ e = SubSeq(f, a, a + Len(e) - 1)
          /\ \A k \in 1..Len(f) :
                (k < a \/ k > a + Len(e) - 1) => Blank(f[k])

C7_SamplesSplit ==
    (prog = MultiProg /\ ByMulti) =>
        /\ Len(call.sample_ids) = Cardinality(CommaPositions(args.samples)) + 1
        /\ Len(call.sample_ids) >= 1
        /\ \A k \in 1..Len(call.sample_ids) :
              IsTrimmed(call.sample_ids[k], Field(args.samples, k))

C7_Witness ==
    /\ prog = MultiProg
    /\ ByMulti
    /\ args.samples = <<" ", ",", "a">>
    /\ call.sample_ids = << <<>>, <<"a">> >>

(***************************************************************************)
(* C8: every document multiple-individuals.py writes has pairwise distinct *)
(* Track identifiers, whatever --samples holds, repeated sample IDs        *)
(* included.                                                               *)
(***************************************************************************)
C8_WrittenDocumentUniqueIds ==
    (prog = MultiProg /\ files_written # <<>>) =>
        UniqueTrackIds(xml_content.root)

(***************************************************************************)
(* C9: Panel names are unique within every produced document: the single   *)
(* builder names its Panels "DataPanel", "Panel{individual_id}_bam" (only  *)
(* with include_bam_tracks) and "FeaturePanel", pairwise distinct for      *)
(* every individual_id; the multi builder makes exactly the two Panels     *)
(* "DataPanel" and "FeaturePanel".                                         *)
(***************************************************************************)
C9_UniquePanelNames ==
    Produced =>
        LET names == PanelNames(xml_content.root)
        IN  /\ Distinct(names)
            /\ BySingle =>
                   names = IF call.include_bam_tracks
                           THEN << <<"D", "a", "t", "a", "P", "a", "n", "e", "l">>,
                                   <<"P", "a", "n", "e", "l">>
                                       \o call.individual_id
                                       \o <<"_", "b", "a", "m">>,
                                   <<"F", "e", "a", "t", "u", "r", "e",
                                     "P", "a", "n", "e", "l">> >>
                           ELSE << <<"D", "a", "t", "a", "P", "a", "n", "e", "l">>,
                                   <<"F", "e", "a", "t", "u", "r", "e",
                                     "P", "a", "n", "e", "l">> >>
            /\ ByMulti =>
                   names = << <<"D", "a", "t", "a", "P", "a", "n", "e", "l">>,
                              <<"F", "e", "a", "t", "u", "r", "e",
                                "P", "a", "n", "e", "l">> >>

C9_Witness ==
    /\ Produced
    /\ BySingle
    /\ call.include_bam_tracks
    /\ call.individual_id = <<>>
    /\ Len(PanelsOf(xml_content.root)) = 3

(***************************************************************************)
(* C10: in every produced document each Resource's path is the id of some  *)
(* Track; in a multi-sample document every Track but "Reference sequence"  *)
(* has the path of a Resource as its id; in a single-individual document   *)
(* the Tracks whose id is no Resource's path are exactly the "Reference    *)
(* sequence" track, the RefSeq Select track and the BAM coverage track.    *)
(***************************************************************************)
IsReferenceTrack(t) == t.attrib.name = S_Reference_sequence

IsRefseqSelectTrack(t) == t.attrib.name = S_Refseq_Select

IsCoverageTrack(t) == t.attrib.clazz = "org.broad.igv.sam.CoverageTrack"

C10_ResourcesAndTracks ==
    Produced =>
        LET root == xml_content.root
            tracks == TracksOf(root)
            unbacked == SelectSeq(tracks,
                                  LAMBDA t : t.attrib.id \notin ResourcePaths(root))
        IN  /\ ResourcePaths(root) \subseteq TrackIds(root)
            /\ ByMulti =>
                   /\ Len(unbacked) = 1
                   /\ IsReferenceTrack(unbacked[1])
            /\ BySingle =>
                   /\ \A i \in 1..Len(tracks) :
                          (tracks[i].attrib.id \notin ResourcePaths(root))
                              <=> \/ IsReferenceTrack(tracks[i])
                                  \/ IsRefseqSelectTrack(tracks[i])
                                  \/ IsCoverageTrack(tracks[i])
                   /\ Len(SelectSeq(unbacked, IsReferenceTrack)) = 1
                   /\ Len(SelectSeq(unbacked, IsRefseqSelectTrack)) = 1
                   /\ Len(SelectSeq(unbacked, IsCoverageTrack))
                          = IF call.include_bam_tracks THEN 1 ELSE 0
                   /\ Len(unbacked) = IF call.include_bam_tracks THEN 3 ELSE 2

C10_Witness ==
    /\ Produced
    /\ BySingle
    /\ call.include_bam_tracks
    /\ Cardinality(ResourcePaths(xml_content.root)) = 5
    /\ Len(TracksOf(xml_content.root)) = 8

=============================================================================
